---- MODULE Spec2Model ----
(***************************************************************************)
(* A model of the pycmds search core: PyGrep (pattern-set construction,    *)
(* per-candidate search, sequential and parallel sessions) and PyFinder    *)
(* (depth-bounded walk, filters, -exec action expansion).                  *)
(*                                                                         *)
(* Text is modelled as sequences of one-character strings.  NL is the line *)
(* terminator, BadByte a byte the text decoder cannot decode.              *)
(***************************************************************************)
EXTENDS Integers, Sequences, FiniteSets, Bags, TLC

VARIABLES
    \* ---- PyGrep object (pygrep.py) ----
    quit_on_error,          \* self.quit_on_error
    no_message,             \* self.no_message
    regex_patterns,         \* self.regex_patterns: compiled regexes, in order
    fixed_string_patterns,  \* self.fixed_string_patterns
    args,                   \* the constructor's arguments
    pc,                     \* position of the constructor
    idx,                    \* index of the item the current constructor loop is at
    logged,                 \* number of diagnostics handed to the logger
    \* ---- PyGrep.search_files (pygrep.py) ----
    sequential_processing,  \* self.sequential_processing
    cpu_count,              \* os.cpu_count(); 0 stands for None
    candidates,             \* what _generate_files yields, in discovery order
    spc,                    \* position of search_files
    next,                   \* sequential mode: index of the next candidate
    taskq,                  \* pool task queue: chunks of candidate indices
    worker,                 \* per pool process: the chunk it runs and its results
    outq,                   \* pool result queue, in arrival order
    cur,                    \* the items of the chunk the coordinator iterates
    printed,                \* standard output: the candidates printed, in order
    result,                 \* history: what search_file did for each candidate
    received,               \* history: candidates whose result reached the coordinator
    \* ---- PyFinder (pyfind.py) ----
    ftypes,                 \* self.ftypes
    name_patterns,          \* self.name_patterns
    cmds,                   \* self.cmds
    maxdepth,               \* self.maxdepth
    mindepth,               \* self.mindepth
    tree,                   \* the directory tree below root_dir
    walk,                   \* what os.walk(root_dir) has still to yield
    fpos,                   \* 0: at the directory itself; k: at its k-th file name
    fpc,                    \* position of find
    yielded,                \* the paths find has yielded, in order
    acted,                  \* history: per _exec_cmd call, the path and the commands run
    skipped,                \* history: directories left by a depth `continue`
    queue,                  \* _exec_cmd: the commands of _cmds still to be run
    ran,                    \* history: the commands subprocess.run has completed
    \* ---- FileTypeCodec (FileReader.py) ----
    fs,                     \* the file system: per path, its resolve(), exists(), sniff string
    history,                \* cls.history: resolved path -> (type, codec)
    type_codec_stat,        \* cls.type_codec_stat: raw sniff string -> count
    type_stat,              \* cls.type_stat: type -> count
    codec_stat,             \* cls.codec_stat: codec -> count
    last,                   \* history: the last operation called and what it returned
    sniffs,                 \* history: per resolved path, sniffs since reset_history
    sniffed,                \* history: sniffs since reset_stats
    ops_h,                  \* history: classifications since reset_history (-1: never reset)
    ops_s,                  \* history: classifications since reset_stats (-1: never reset)
    \* ---- FileTypeE.from_path, PyFinder._filter_on_name called on their own ----
    probe,                  \* p: what the pathlib predicates answer for it
    kind,                   \* what from_path(p) returned ("none": not called)
    entry_name,             \* p.name
    accepted,               \* what _filter_on_name(p) returned ("none": not called)
    \* ---- PyGrep._generate_files (pygrep.py) ----
    files,                  \* the inputs handed to the generator
    gi,                     \* index of the input the generator is at
    gwalk,                  \* the files os.walk of a directory input has still to give
    generated,              \* what the generator has yielded, in order
    gpc,                    \* position of the generator
    \* ---- pyfind __main__ (pyfind.py) ----
    argv,                   \* the command line
    mpc,                    \* position of the script
    root_i,                 \* index of the root being searched
    exception,              \* the exception that ended the script, if any
    exit_code               \* the exit status of the process (-1: still running)

ctorVars == <<args, pc, idx>>
grepVars == <<sequential_processing, cpu_count, candidates, spc, next,
              taskq, worker, outq, cur, printed, result, received>>
findVars == <<ftypes, name_patterns, cmds, maxdepth, mindepth, tree, walk, fpos,
              fpc, yielded, acted, skipped, queue, ran>>
objVars == <<quit_on_error, no_message, regex_patterns, fixed_string_patterns>>
codecVars == <<fs, history, type_codec_stat, type_stat, codec_stat, last,
               sniffs, sniffed, ops_h, ops_s>>
fnVars == <<probe, kind, entry_name, accepted>>
expandVars == <<files, gi, gwalk, generated, gpc>>
mainVars == <<argv, mpc, root_i, exception, exit_code>>
extVars == <<codecVars, fnVars, expandVars, mainVars>>

vars == <<quit_on_error, no_message, regex_patterns, fixed_string_patterns,
          args, pc, idx, logged,
          sequential_processing, cpu_count, candidates, spc, next,
          taskq, worker, outq, cur, printed, result, received,
          ftypes, name_patterns, cmds, maxdepth, mindepth, tree, walk, fpos,
          fpc, yielded, acted, skipped, queue, ran,
          fs, history, type_codec_stat, type_stat, codec_stat, last,
          sniffs, sniffed, ops_h, ops_s,
          probe, kind, entry_name, accepted,
          files, gi, gwalk, generated, gpc,
          argv, mpc, root_i, exception, exit_code>>

----------------------------------------------------------------------------
(* Text helpers *)

NL == "\n"
BadByte == "#"

Range(s) == {s[i] : i \in 1..Len(s)}

\* s.rstrip(os.linesep): every trailing character that belongs to os.linesep
\* ("\n" on POSIX) is removed, not only one.
RECURSIVE RStripLinesep(_)
RStripLinesep(s) ==
    IF Len(s) > 0 /\ s[Len(s)] = NL
    THEN RStripLinesep(SubSeq(s, 1, Len(s) - 1))
    ELSE s

\* re.compile(s) raises re.error on an unbalanced parenthesis; the model's
\* pattern language is: a literal character, "." (any character but NL),
\* "^" (start of text), "$" (end of text, or just before a final NL).
CompileFails(s) == "(" \in Range(s)

RECURSIVE MatchHere(_, _, _, _)
MatchHere(p, i, s, j) ==
    IF i > Len(p) THEN TRUE
    ELSE IF p[i] = "^" THEN j = 1 /\ MatchHere(p, i + 1, s, j)
    ELSE IF p[i] = "$"
         THEN /\ \/ j = Len(s) + 1
                 \/ (j = Len(s) /\ s[j] = NL)
              /\ MatchHere(p, i + 1, s, j)
    ELSE /\ j <= Len(s)
         /\ \/ (p[i] = "." /\ s[j] # NL)
            \/ p[i] = s[j]
         /\ MatchHere(p, i + 1, s, j + 1)

\* (mutant) the pattern may match starting anywhere, as search does.
RegexMatch_anywhere(p, s) == \E j \in 1..(Len(s) + 1) : MatchHere(p, 1, s, j)

\* pattern.match(s): the pattern must match starting at position 0.
RegexMatch(p, s) == MatchHere(p, 1, s, 1)

\* pattern.search(s): the pattern may match starting anywhere.
RegexSearch(p, s) == \E j \in 1..(Len(s) + 1) : MatchHere(p, 1, s, j)

\* sub in s
Contains(sub, s) ==
    \E j \in 0..(Len(s) - Len(sub)) : SubSeq(s, j + 1, j + Len(sub)) = sub

----------------------------------------------------------------------------
(* PyGrep.__init__: _prepare_regex and _prepare_fixed_strings *)

\* open(_fpath, "r") raises for a file that cannot be opened.
Unopenable == [openable |-> FALSE, lines |-> <<>>]
PatternFile(ls) == [openable |-> TRUE, lines |-> ls]

\* Pattern strings given with -e / -f.
RegexLiterals == { <<"a">>, <<"(">> }
FixedLiterals == { <<"a", ".">> }

\* Pattern files given with -fr / -ff: a file that cannot be opened, or the
\* lines its iteration yields (each ends with NL, the last one may not).
PatternFiles ==
    { Unopenable,
      PatternFile(<< <<"a", NL>> >>),
      PatternFile(<< <<"(", NL>> >>),
      PatternFile(<< <<"(", NL>>, <<"a", NL>> >>),
      PatternFile(<< <<"b", NL>>, <<"(", NL>>, <<"a">> >>),
      PatternFile(<< <<"b", NL>>, <<"a">> >>) }

MaxLiterals == 2
MaxPatternFiles == 2

SeqsUpTo(S, n) == UNION { [1..k -> S] : k \in 0..n }

CtorArgs ==
    [ regex_patterns            : SeqsUpTo(RegexLiterals, MaxLiterals),
      fpaths_with_patterns      : SeqsUpTo(PatternFiles, MaxPatternFiles),
      fixed_string_patterns     : SeqsUpTo(FixedLiterals, 1),
      fpaths_with_fixed_strings : SeqsUpTo(PatternFiles, 1) ]

\* The loop the constructor enters after `phase`, skipping loops over nothing.
\* "fixed_literals" (the list() copy at the top of _prepare_fixed_strings) is
\* always executed.
RECURSIVE EnterPhase(_, _)
EnterPhase(phase, a) ==
    CASE phase = "regex_literals" ->
            IF Len(a.regex_patterns) > 0 THEN phase
            ELSE EnterPhase("regex_files", a)
      [] phase = "regex_files" ->
            IF Len(a.fpaths_with_patterns) > 0 THEN phase
            ELSE "fixed_literals"
      [] phase = "fixed_literals" -> phase
      [] phase = "fixed_files" ->
            IF Len(a.fpaths_with_fixed_strings) > 0 THEN phase
            ELSE "built"
      [] OTHER -> phase

AfterPhase(phase) ==
    CASE phase = "regex_literals" -> "regex_files"
      [] phase = "regex_files"    -> "fixed_literals"
      [] phase = "fixed_literals" -> "fixed_files"
      [] OTHER                    -> "built"

\* Move past item idx of a loop over n items.
Advance(phase, n) ==
    IF idx < n
    THEN pc' = phase /\ idx' = idx + 1
    ELSE pc' = EnterPhase(AfterPhase(phase), args) /\ idx' = 1

\* The except clause shared by the constructor's loops: log unless
\* suppressed, raise if quit_on_error, otherwise go on with the next item.
ItemFailure(phase, n) ==
    /\ logged' = IF no_message THEN logged ELSE logged + 1
    /\ IF quit_on_error
       THEN pc' = "raised" /\ idx' = idx
       ELSE Advance(phase, n)

\* One iteration of `for _s in regex_patterns` (pygrep.py 54-63).
CompileLiteral ==
    /\ pc = "regex_literals"
    /\ LET s == args.regex_patterns[idx]
           n == Len(args.regex_patterns)
       IN IF CompileFails(s)
          THEN /\ ItemFailure("regex_literals", n)
               /\ UNCHANGED regex_patterns
          ELSE /\ regex_patterns' = Append(regex_patterns, s)
               /\ Advance("regex_literals", n)
               /\ UNCHANGED logged
    /\ UNCHANGED <<quit_on_error, no_message, fixed_string_patterns, args>>
    /\ UNCHANGED <<grepVars, findVars, extVars>>

\* The patterns `for _line in _f` appends before the first line that fails
\* to compile; the exception leaves the loop, so later lines are not reached.
RECURSIVE CompiledPrefix(_)
CompiledPrefix(lines) ==
    IF lines = <<>> THEN <<>>
    ELSE LET p == RStripLinesep(Head(lines))
         IN IF CompileFails(p) THEN <<>>
            ELSE <<p>> \o CompiledPrefix(Tail(lines))

FileCompileFails(lines) ==
    \E i \in 1..Len(lines) : CompileFails(RStripLinesep(lines[i]))

\* One iteration of `for _fpath in fpaths_with_patterns` (pygrep.py 65-79).
CompileFile ==
    /\ pc = "regex_files"
    /\ LET f == args.fpaths_with_patterns[idx]
           n == Len(args.fpaths_with_patterns)
       IN IF ~f.openable
          THEN /\ ItemFailure("regex_files", n)
               /\ UNCHANGED regex_patterns
          ELSE /\ regex_patterns' = regex_patterns \o CompiledPrefix(f.lines)
               /\ IF FileCompileFails(f.lines)
                  THEN ItemFailure("regex_files", n)
                  ELSE Advance("regex_files", n) /\ UNCHANGED logged
    /\ UNCHANGED <<quit_on_error, no_message, fixed_string_patterns, args>>
    /\ UNCHANGED <<grepVars, findVars, extVars>>

\* self.fixed_string_patterns = list(fixed_string_patterns) (pygrep.py 86).
CopyFixedLiterals ==
    /\ pc = "fixed_literals"
    /\ fixed_string_patterns' = args.fixed_string_patterns
    /\ pc' = EnterPhase("fixed_files", args)
    /\ idx' = 1
    /\ UNCHANGED <<quit_on_error, no_message, regex_patterns, args, logged>>
    /\ UNCHANGED <<grepVars, findVars, extVars>>

StrippedLines(lines) == [i \in 1..Len(lines) |-> RStripLinesep(lines[i])]

\* One iteration of `for _fpath in fpaths_with_fixed_strings` (pygrep.py 88-99).
ReadFixedFile ==
    /\ pc = "fixed_files"
    /\ LET f == args.fpaths_with_fixed_strings[idx]
           n == Len(args.fpaths_with_fixed_strings)
       IN IF ~f.openable
          THEN /\ ItemFailure("fixed_files", n)
               /\ UNCHANGED fixed_string_patterns
          ELSE /\ fixed_string_patterns' =
                      fixed_string_patterns \o StrippedLines(f.lines)
               /\ Advance("fixed_files", n)
               /\ UNCHANGED logged
    /\ UNCHANGED <<quit_on_error, no_message, regex_patterns, args>>
    /\ UNCHANGED <<grepVars, findVars, extVars>>

\* No PyFinder exists.
FindIdle ==
    /\ ftypes = [given |-> FALSE, set |-> {}]
    /\ name_patterns = [given |-> FALSE, set |-> {}]
    /\ cmds = [given |-> FALSE, tokens |-> <<>>]
    /\ maxdepth = -1
    /\ mindepth = -1
    /\ tree = [files |-> <<>>, dirs |-> <<>>]
    /\ walk = <<>>
    /\ fpos = 0
    /\ fpc = "idle"
    /\ yielded = <<>>
    /\ acted = <<>>
    /\ skipped = {}
    /\ queue = <<>>
    /\ ran = <<>>

\* search_files has not been called.
GrepIdle ==
    /\ sequential_processing = TRUE
    /\ cpu_count = 0
    /\ candidates = <<>>
    /\ spc = "idle"
    /\ next = 1
    /\ taskq = <<>>
    /\ worker = <<>>
    /\ outq = <<>>
    /\ cur = <<>>
    /\ printed = <<>>
    /\ result = <<>>
    /\ received = {}

\* No PyGrep exists.
CtorIdle ==
    /\ quit_on_error = FALSE
    /\ no_message = FALSE
    /\ regex_patterns = <<>>
    /\ fixed_string_patterns = <<>>
    /\ args = [regex_patterns |-> <<>>, fpaths_with_patterns |-> <<>>,
               fixed_string_patterns |-> <<>>, fpaths_with_fixed_strings |-> <<>>]
    /\ pc = "idle"
    /\ idx = 1
    /\ logged = 0

\* What a query returns for a path that does not exist (None).
Absent == [absent |-> TRUE, pair |-> <<>>, flag |-> FALSE, str |-> <<>>]
NoCall == [op |-> "none", path |-> "", at |-> "", out |-> "none", ret |-> Absent]

NoPreds ==
    [is_char_device |-> FALSE, is_dir |-> FALSE, is_symlink |-> FALSE,
     is_socket |-> FALSE, is_mount |-> FALSE, is_block_device |-> FALSE,
     is_fifo |-> FALSE, is_file |-> FALSE]

NoArgv ==
    [type |-> [given |-> FALSE, s |-> <<>>], name |-> [given |-> FALSE, list |-> <<>>],
     exec |-> [given |-> FALSE, tokens |-> <<>>], maxdepth |-> -1, mindepth |-> -1,
     roots |-> <<>>]

\* The parts of the program other than `busy` are not in use: the class
\* attributes of FileTypeCodec as the class body leaves them (FileReader.py
\* 29-33), no call of from_path or _filter_on_name, no generator, no script.
ExtIdle(busy) ==
    /\ IF busy = "codec" THEN TRUE
       ELSE /\ fs = <<>>
            /\ history = <<>>
            /\ type_codec_stat = EmptyBag
            /\ type_stat = EmptyBag
            /\ codec_stat = EmptyBag
            /\ last = NoCall
            /\ sniffs = <<>>
            /\ sniffed = 0
            /\ ops_h = -1
            /\ ops_s = -1
    /\ IF busy = "from_path" THEN TRUE
       ELSE probe = NoPreds /\ kind = "none"
    /\ IF busy = "_filter_on_name" THEN TRUE
       ELSE entry_name = <<>> /\ accepted = "none"
    /\ IF busy = "_generate_files" THEN TRUE
       ELSE /\ files = <<>>
            /\ gi = 1
            /\ gwalk = <<>>
            /\ generated = <<>>
            /\ gpc = "idle"
    /\ IF busy = "__main__" THEN TRUE
       ELSE /\ argv = NoArgv
            /\ mpc = "idle"
            /\ root_i = 1
            /\ exception = "none"
            /\ exit_code = -1

InitCtor ==
    /\ GrepIdle
    /\ FindIdle
    /\ ExtIdle("none")
    /\ quit_on_error \in BOOLEAN
    /\ no_message \in BOOLEAN
    /\ args \in CtorArgs
    /\ regex_patterns = <<>>
    /\ fixed_string_patterns = <<>>
    /\ pc = EnterPhase("regex_literals", args)
    /\ idx = 1
    /\ logged = 0

NextCtor ==
    \/ CompileLiteral
    \/ CompileFile
    \/ CopyFixedLiterals
    \/ ReadFixedFile

SpecCtor == InitCtor /\ [][NextCtor]_vars

----------------------------------------------------------------------------
(* PyGrep.search_line, search_file *)

Min(a, b) == IF a < b THEN a ELSE b
Max(a, b) == IF a > b THEN a ELSE b

\* search_line: any regex found anywhere in the line, else any fixed string
\* contained in the line (pygrep.py 138-145).
search_line(line) ==
    \/ \E k \in 1..Len(regex_patterns) : RegexSearch(regex_patterns[k], line)
    \/ \E k \in 1..Len(fixed_string_patterns) :
           Contains(fixed_string_patterns[k], line)

Undecodable(line) == BadByte \in Range(line)

\* The text layer decodes the file in chunks and hands out lines of the
\* decoded text: asking for line i decodes the whole chunk that holds it
\* (here `ra` lines, the chunk size being a matter of byte counts), and an
\* undecodable byte anywhere in that chunk raises at that moment.
DecodeRaises(lines, i, ra) ==
    /\ (i - 1) % ra = 0
    /\ \E k \in i..Min(i + ra - 1, Len(lines)) : Undecodable(lines[k])

\* (mutant) the scan does not stop at the first matching line: it reads on to
\* the end of the file and reports the match there.
RECURSIVE ScanOn(_, _, _, _)
ScanOn(lines, i, ra, found) ==
    IF i > Len(lines)
    THEN [out |-> IF found THEN "matched" ELSE "exhausted", read |-> Len(lines)]
    ELSE IF DecodeRaises(lines, i, ra) THEN [out |-> "error", read |-> i - 1]
    ELSE ScanOn(lines, i + 1, ra, found \/ search_line(lines[i]))

ScanLines_reads_on(lines, i, ra, firstOnly) == ScanOn(lines, i, ra, FALSE)

\* `for _line_num, _line in enumerate(f)` with the loop body of search_file.
\* firstOnly: the stream branch, whose `return (fpath, False)` is inside the
\* loop body (pygrep.py 171-174); the path branch returns False after the
\* loop (pygrep.py 160-163).  read: the lines handed to the loop body.
RECURSIVE ScanLines(_, _, _, _)
ScanLines(lines, i, ra, firstOnly) ==
    IF i > Len(lines) THEN [out |-> "exhausted", read |-> Len(lines)]
    ELSE IF DecodeRaises(lines, i, ra) THEN [out |-> "error", read |-> i - 1]
    ELSE IF search_line(lines[i]) THEN [out |-> "matched", read |-> i]
    ELSE IF firstOnly THEN [out |-> "stopped", read |-> i]
    ELSE ScanLines(lines, i + 1, ra, firstOnly)

\* search_file (pygrep.py 147-181).  out: "matched" returns (fpath, True);
\* "skipped" (not a text file), "exhausted", "stopped" and "absorbed" (an
\* exception caught, falling through to line 181) return (fpath, False);
\* "raised" leaves search_file with an exception.  log: a diagnostic is due.
search_file(c, ra) ==
    IF c.kind = "path"
    THEN IF ~c.is_text
         THEN [out |-> "skipped", read |-> 0, log |-> TRUE]
         ELSE LET r == ScanLines(c.lines, 1, ra, FALSE)
              IN IF r.out = "error"
                 THEN [out  |-> IF quit_on_error THEN "raised" ELSE "absorbed",
                       read |-> r.read, log |-> TRUE]
                 ELSE [out |-> r.out, read |-> r.read, log |-> FALSE]
    ELSE LET r == ScanLines(c.lines, 1, ra, TRUE)
         IN IF r.out = "error"
            THEN [out |-> "raised", read |-> r.read, log |-> FALSE]
            ELSE [out |-> r.out, read |-> r.read, log |-> FALSE]

\* The tuple search_file returns.
ReturnValue(i, r) == <<i, r.out = "matched">>

Log(r) == IF r.log /\ ~no_message THEN logged + 1 ELSE logged

----------------------------------------------------------------------------
(* PyGrep.search_files *)

LHit  == <<"x", "a", NL>>
LMiss == <<"x", "b", NL>>
LFix  == <<"c", ".", "d", NL>>
LBad  == <<"x", BadByte, NL>>

PathCandidate(text, ls) == [kind |-> "path", is_text |-> text, lines |-> ls]
StreamCandidate(ls) == [kind |-> "stream", is_text |-> TRUE, lines |-> ls]

CandidateSet ==
    { PathCandidate(TRUE, <<LHit, LMiss>>),
      PathCandidate(TRUE, <<LMiss, LFix>>),
      PathCandidate(TRUE, <<LMiss, LMiss>>),
      PathCandidate(TRUE, <<LHit, LBad>>),
      PathCandidate(TRUE, <<LBad, LHit>>),
      PathCandidate(FALSE, <<LHit>>),
      StreamCandidate(<<LMiss, LHit>>),
      StreamCandidate(<<LBad>>) }

NumCandidates == 3
MaxReadAhead == 2
\* (sequential_processing, os.cpu_count()) pairs; cpu 0 stands for None.
Modes == { <<TRUE, 4>>, <<FALSE, 0>>, <<FALSE, 2>>, <<FALSE, 4>> }

_num_processes == Max(cpu_count \div 2, 1)

\* Pool._get_tasks: consecutive slices of `size` candidates.
RECURSIVE Chunks(_, _)
Chunks(ixs, size) ==
    IF ixs = <<>> THEN <<>>
    ELSE IF Len(ixs) <= size THEN <<ixs>>
    ELSE <<SubSeq(ixs, 1, size)>> \o Chunks(SubSeq(ixs, size + 1, Len(ixs)), size)

\* bool(x) of a tuple: true unless the tuple is empty.
Truthy(t) == Len(t) > 0

\* `if self.search_file(_fpath):` (pygrep.py 191)
SequentialPrints(ret) == Truthy(ret)

\* (mutant) the coordinator tests the result tuple instead of its flag.
ParallelPrints_tuple(item) == Truthy(item)

\* `if _has_match:` (pygrep.py 207)
ParallelPrints(item) == item[2]

NoResult == [out |-> "none", read |-> 0]
Record(r) == [out |-> r.out, read |-> r.read]

\* One iteration of the sequential loop (pygrep.py 190-192).
SeqStep ==
    /\ spc = "sequential"
    /\ next <= Len(candidates)
    /\ \E ra \in 1..MaxReadAhead :
         LET r == search_file(candidates[next], ra)
         IN /\ result' = [result EXCEPT ![next] = Record(r)]
            /\ logged' = Log(r)
            /\ IF r.out = "raised"
               THEN /\ spc' = "aborted"
                    /\ UNCHANGED <<printed, next>>
               ELSE /\ printed' = IF SequentialPrints(ReturnValue(next, r))
                                  THEN Append(printed, next)
                                  ELSE printed
                    /\ next' = next + 1
                    /\ spc' = spc
    /\ UNCHANGED <<taskq, worker, outq, cur, received>>
    /\ UNCHANGED <<sequential_processing, cpu_count, candidates>>
    /\ UNCHANGED <<objVars, ctorVars, findVars, extVars>>

Idle == [chunk |-> <<>>, pos |-> 1, out |-> <<>>]

\* A pool process takes the next chunk from the task queue.
ParTake(w) ==
    /\ spc = "parallel"
    /\ worker[w].chunk = <<>>
    /\ taskq # <<>>
    /\ worker' = [worker EXCEPT ![w] = [chunk |-> Head(taskq), pos |-> 1, out |-> <<>>]]
    /\ taskq' = Tail(taskq)
    /\ UNCHANGED <<outq, cur, printed, result, received, next, spc, logged>>
    /\ UNCHANGED <<sequential_processing, cpu_count, candidates>>
    /\ UNCHANGED <<objVars, ctorVars, findVars, extVars>>

\* A pool process runs search_file on the next candidate of its chunk
\* (mapstar: list(map(func, chunk))).  An exception ends the chunk and is
\* sent back in place of the chunk's results; otherwise the results are sent
\* back once the chunk is complete.
ParSearch(w) ==
    /\ spc = "parallel"
    /\ worker[w].chunk # <<>>
    /\ \E ra \in 1..MaxReadAhead :
         LET me == worker[w]
             i == me.chunk[me.pos]
             r == search_file(candidates[i], ra)
             out == Append(me.out, ReturnValue(i, r))
         IN /\ result' = [result EXCEPT ![i] = Record(r)]
            /\ logged' = Log(r)
            /\ IF r.out = "raised"
               THEN /\ outq' = Append(outq, [ok |-> FALSE, items |-> <<>>])
                    /\ worker' = [worker EXCEPT ![w] = Idle]
               ELSE IF me.pos = Len(me.chunk)
               THEN /\ outq' = Append(outq, [ok |-> TRUE, items |-> out])
                    /\ worker' = [worker EXCEPT ![w] = Idle]
               ELSE /\ outq' = outq
                    /\ worker' = [worker EXCEPT ![w] =
                                     [me EXCEPT !.pos = me.pos + 1, !.out = out]]
    /\ UNCHANGED <<taskq, cur, printed, received, next, spc>>
    /\ UNCHANGED <<sequential_processing, cpu_count, candidates>>
    /\ UNCHANGED <<objVars, ctorVars, findVars, extVars>>

\* One iteration of the coordinator's loop over imap_unordered (pygrep.py
\* 202-208): the next item of the chunk at hand, or of the next chunk result
\* to arrive; a chunk that failed re-raises its exception here.
ParConsume ==
    /\ spc = "parallel"
    /\ cur # <<>> \/ outq # <<>>
    /\ LET fresh == cur = <<>>
           items == IF fresh THEN Head(outq).items ELSE cur
       IN IF fresh /\ ~Head(outq).ok
          THEN /\ spc' = "aborted"
               /\ outq' = Tail(outq)
               /\ UNCHANGED <<cur, printed, received>>
          ELSE /\ outq' = IF fresh THEN Tail(outq) ELSE outq
               /\ cur' = Tail(items)
               /\ received' = received \cup {Head(items)[1]}
               /\ printed' = IF ParallelPrints(Head(items))
                              THEN Append(printed, Head(items)[1])
                              ELSE printed
               /\ spc' = spc
    /\ UNCHANGED <<taskq, worker, result, next, logged>>
    /\ UNCHANGED <<sequential_processing, cpu_count, candidates>>
    /\ UNCHANGED <<objVars, ctorVars, findVars, extVars>>

\* The loop ends: the candidates are exhausted (sequential), or every chunk's
\* result has been consumed (parallel).
Finish ==
    /\ IF spc = "sequential"
       THEN next > Len(candidates)
       ELSE /\ spc = "parallel"
            /\ taskq = <<>> /\ outq = <<>> /\ cur = <<>>
            /\ \A w \in 1..Len(worker) : worker[w].chunk = <<>>
    /\ spc' = "done"
    /\ UNCHANGED <<taskq, worker, outq, cur, printed, result, received, next, logged>>
    /\ UNCHANGED <<sequential_processing, cpu_count, candidates>>
    /\ UNCHANGED <<objVars, ctorVars, findVars, extVars>>

\* A constructed PyGrep whose search_files is entered (pygrep.py 183-199).
InitGrep ==
    /\ quit_on_error \in BOOLEAN
    /\ no_message = FALSE
    /\ regex_patterns = << <<"a">> >>
    /\ fixed_string_patterns = << <<"c", ".", "d">> >>
    /\ args = [regex_patterns |-> <<>>, fpaths_with_patterns |-> <<>>,
               fixed_string_patterns |-> <<>>, fpaths_with_fixed_strings |-> <<>>]
    /\ pc = "built"
    /\ idx = 1
    /\ logged = 0
    /\ \E m \in Modes : sequential_processing = m[1] /\ cpu_count = m[2]
    /\ candidates \in [1..NumCandidates -> CandidateSet]
    /\ spc = IF sequential_processing \/ cpu_count = 0
             THEN "sequential" ELSE "parallel"
    /\ next = 1
    /\ taskq = IF sequential_processing \/ cpu_count = 0 THEN <<>>
               ELSE Chunks([i \in 1..NumCandidates |-> i], _num_processes)
    /\ worker = IF sequential_processing \/ cpu_count = 0 THEN <<>>
                ELSE [w \in 1.._num_processes |-> Idle]
    /\ outq = <<>>
    /\ cur = <<>>
    /\ printed = <<>>
    /\ result = [i \in 1..NumCandidates |-> NoResult]
    /\ received = {}
    /\ FindIdle
    /\ ExtIdle("none")

NextGrep ==
    \/ SeqStep
    \/ \E w \in 1..Len(worker) : ParTake(w)
    \/ \E w \in 1..Len(worker) : ParSearch(w)
    \/ ParConsume
    \/ Finish

SpecGrep == InitGrep /\ [][NextGrep]_vars

----------------------------------------------------------------------------
(* FileTypeE.from_path; PyFinder filters, find and _exec_cmd *)

Directory == [NoPreds EXCEPT !.is_dir = TRUE]
RegularFile == [NoPreds EXCEPT !.is_file = TRUE]
LinkToFile == [NoPreds EXCEPT !.is_symlink = TRUE, !.is_file = TRUE]

\* (mutant) the symbolic-link test comes before the directory test.
from_path_links_first(st) ==
    IF st.is_char_device THEN "c"
    ELSE IF st.is_symlink THEN "l"
    ELSE IF st.is_dir THEN "d"
    ELSE IF st.is_socket THEN "s"
    ELSE IF st.is_mount THEN "m"
    ELSE IF st.is_block_device THEN "b"
    ELSE IF st.is_fifo THEN "o"
    ELSE IF st.is_file THEN "f"
    ELSE "ValueError"

\* FileTypeE.from_path: the first predicate that holds, in the order of the
\* if/elif chain; the value is the kind's one-character code.
from_path(st) ==
    IF st.is_char_device THEN "c"
    ELSE IF st.is_dir THEN "d"
    ELSE IF st.is_symlink THEN "l"
    ELSE IF st.is_socket THEN "s"
    ELSE IF st.is_mount THEN "m"
    ELSE IF st.is_block_device THEN "b"
    ELSE IF st.is_fifo THEN "o"
    ELSE IF st.is_file THEN "f"
    ELSE "ValueError"

\* ---- paths: a path below root_dir is the sequence of its components ----

RootStr == <<"/", "R">>
RootName == <<"R">>

RECURSIVE Join(_, _)
Join(names, sep) ==
    IF names = <<>> THEN <<>>
    ELSE IF Len(names) = 1 THEN Head(names)
    ELSE Head(names) \o <<sep>> \o Join(Tail(names), sep)

\* s.split(sep)
RECURSIVE Split(_, _)
Split(s, sep) ==
    IF \A k \in 1..Len(s) : s[k] # sep THEN <<s>>
    ELSE LET k == CHOOSE k \in 1..Len(s) :
                     s[k] = sep /\ \A l \in 1..(k - 1) : s[l] # sep
         IN <<SubSeq(s, 1, k - 1)>> \o Split(SubSeq(s, k + 1, Len(s)), sep)

\* _dir.relative_to(root_dir).as_posix(): "." for the root itself.
RelPosix(rel) == IF rel = <<>> THEN <<".">> ELSE Join(rel, "/")

\* str(p)
PathStr(rel) == IF rel = <<>> THEN RootStr ELSE RootStr \o <<"/">> \o Join(rel, "/")

\* p.name
PathName(rel) == IF rel = <<>> THEN RootName ELSE rel[Len(rel)]

\* _depth = len(_dir.relative_to(root_dir).as_posix().split("/"))
WalkDepth(rel) == Len(Split(RelPosix(rel), "/"))

\* ---- the directory trees of the model ----

NameA == <<"a", ".", "t">>
NameB == <<"b", "c">>
NameC == <<"a", "b", "c">>
NameSub == <<"s", "u", "b">>
NameX == <<"x">>

File(n) == [name |-> n, stat |-> RegularFile]
Link(n) == [name |-> n, stat |-> LinkToFile]
Dir(n, t) == [name |-> n, sub |-> t]

\* R holding only R/a.t
TreeFlat == [files |-> <<File(NameA)>>, dirs |-> <<>>]
\* R/a.t, R/sub/bc, R/sub/x/abc (a link to a file)
TreeDeep ==
    [files |-> <<File(NameA)>>,
     dirs  |-> << Dir(NameSub,
                      [files |-> <<File(NameB)>>,
                       dirs  |-> << Dir(NameX, [files |-> <<Link(NameC)>>,
                                                dirs  |-> <<>>]) >>]) >>]
Trees == {TreeFlat, TreeDeep}

\* os.walk(root_dir), top-down: a directory, then the walk of each of its
\* subdirectories in listing order.
RECURSIVE os_walk(_, _)
RECURSIVE WalkDirs(_, _)
os_walk(t, rel) ==
    << [dir |-> rel, fnames |-> t.files] >> \o WalkDirs(t.dirs, rel)
WalkDirs(ds, rel) ==
    IF ds = <<>> THEN <<>>
    ELSE os_walk(Head(ds).sub, Append(rel, Head(ds).name)) \o WalkDirs(Tail(ds), rel)

\* ---- the arguments of the model ----

ECHO == <<"e", "c", "h", "o">>
LS == <<"l", "s">>
EXEC_CMD_PLACEHOLDER == <<"{", "}">>
EXEC_CMD_SEPERATORS == { <<";">>, <<"\\", ";">> }

None == [given |-> FALSE, tokens |-> <<>>]
Template(ts) == [given |-> TRUE, tokens |-> ts]
Templates ==
    { None,
      Template(<<ECHO, EXEC_CMD_PLACEHOLDER, <<";">>, LS, EXEC_CMD_PLACEHOLDER>>),
      Template(<<LS, EXEC_CMD_PLACEHOLDER, <<"\\", ";">>,
                 ECHO, EXEC_CMD_PLACEHOLDER, <<";">> >>),
      Template(<<ECHO, EXEC_CMD_PLACEHOLDER>>) }

TypeFilters ==
    { [given |-> FALSE, set |-> {}], [given |-> TRUE, set |-> {"f"}],
      [given |-> TRUE, set |-> {"d", "l"}] }
NameFilters ==
    { [given |-> FALSE, set |-> {}], [given |-> TRUE, set |-> { <<"a">>, <<"s", ".">> }] }

MaxDepthArg == 3

\* ---- PyFinder ----

\* _filter_on_ftypes (pyfind.py 85-91); "ValueError" when from_path raises.
_filter_on_ftypes(st) ==
    IF ~ftypes.given THEN "True"
    ELSE IF from_path(st) = "ValueError" THEN "ValueError"
    ELSE IF from_path(st) \in ftypes.set THEN "True"
    ELSE "False"

\* _filter_on_name (pyfind.py 93-99)
_filter_on_name(name) ==
    IF ~name_patterns.given THEN TRUE
    ELSE \E pt \in name_patterns.set : RegexMatch(pt, name)

\* The sub-commands _exec_cmd collects: a `{}` token becomes str(p), a
\* separator token closes the command being built; what is being built when
\* the tokens end is not appended (pyfind.py 127-136).
RECURSIVE Collect(_, _, _)
Collect(tokens, cmd, pstr) ==
    IF tokens = <<>> THEN <<>>
    ELSE LET t == Head(tokens)
         IN IF t = EXEC_CMD_PLACEHOLDER
            THEN Collect(Tail(tokens), Append(cmd, pstr), pstr)
            ELSE IF t \in EXEC_CMD_SEPERATORS
            THEN <<cmd>> \o Collect(Tail(tokens), <<>>, pstr)
            ELSE Collect(Tail(tokens), Append(cmd, t), pstr)

\* _exec_cmd (pyfind.py 124-138): the commands handed to subprocess.run, in order.
_exec_cmd(rel) == Collect(cmds.tokens, <<>>, PathStr(rel))

\* `if self.cmds is not None: self._exec_cmd(p) else: yield p`
Report(rel) ==
    IF cmds.given
    THEN /\ acted' = Append(acted, [path |-> rel, run |-> _exec_cmd(rel)])
         /\ queue' = _exec_cmd(rel)
         /\ UNCHANGED yielded
    ELSE /\ yielded' = Append(yielded, rel)
         /\ UNCHANGED <<acted, queue>>

\* (mutant) the child processes are started and not waited for.
Blocked_never == FALSE

\* subprocess.run returns when the child has ended: find goes on only after
\* the last command of _cmds has been run (pyfind.py 137-138).
Blocked == queue # <<>>

\* The depth test at the top of the loop body (pyfind.py 104-109).
DepthSkips(rel) ==
    /\ maxdepth >= 0 \/ mindepth >= 0
    /\ \/ WalkDepth(rel) > maxdepth
       \/ WalkDepth(rel) < mindepth

\* After the entry at fpos of the directory at the head of the walk.
NextEntry ==
    IF fpos < Len(Head(walk).fnames)
    THEN walk' = walk /\ fpos' = fpos + 1
    ELSE walk' = Tail(walk) /\ fpos' = 0

\* An entry is filtered and, if it passes, reported (pyfind.py 111-115 for
\* the directory, 118-122 for a file name).
Visit(rel, st) ==
    IF _filter_on_ftypes(st) = "ValueError"
    THEN fpc' = "raised" /\ UNCHANGED <<walk, fpos, yielded, acted, queue>>
    ELSE /\ IF _filter_on_ftypes(st) = "True" /\ _filter_on_name(PathName(rel))
            THEN Report(rel)
            ELSE UNCHANGED <<yielded, acted, queue>>
         /\ NextEntry
         /\ fpc' = fpc

\* os.walk yields the next directory: the depth test, then the directory
\* itself (pyfind.py 102-115).
FindDir ==
    /\ fpc = "walking" /\ walk # <<>> /\ fpos = 0
    /\ ~Blocked
    /\ LET rel == Head(walk).dir
       IN IF DepthSkips(rel)
          THEN /\ walk' = Tail(walk)
               /\ skipped' = skipped \cup {rel}
               /\ UNCHANGED <<fpos, fpc, yielded, acted, queue>>
          ELSE /\ Visit(rel, Directory)
               /\ UNCHANGED skipped
    /\ UNCHANGED <<ftypes, name_patterns, cmds, maxdepth, mindepth, tree, ran>>
    /\ UNCHANGED <<objVars, ctorVars, grepVars, logged, extVars>>

\* One iteration of `for _fname in _fnames` (pyfind.py 116-122).
FindFile ==
    /\ fpc = "walking" /\ walk # <<>> /\ fpos > 0
    /\ ~Blocked
    /\ LET f == Head(walk).fnames[fpos]
       IN Visit(Append(Head(walk).dir, f.name), f.stat)
    /\ UNCHANGED <<ftypes, name_patterns, cmds, maxdepth, mindepth, tree, skipped, ran>>
    /\ UNCHANGED <<objVars, ctorVars, grepVars, logged, extVars>>

\* os.walk is exhausted: the generator ends.
FindEnd ==
    /\ fpc = "walking" /\ walk = <<>>
    /\ ~Blocked
    /\ fpc' = "done"
    /\ UNCHANGED <<ftypes, name_patterns, cmds, maxdepth, mindepth, tree, walk,
                   fpos, yielded, acted, skipped, queue, ran>>
    /\ UNCHANGED <<objVars, ctorVars, grepVars, logged, extVars>>

\* One iteration of `for _cmd in _cmds: subprocess.run(_cmd)` (pyfind.py
\* 137-138), for the entry _exec_cmd was last called with.
ExecRun ==
    /\ fpc = "walking" /\ queue # <<>>
    /\ ran' = Append(ran, [path |-> acted[Len(acted)].path, cmd |-> Head(queue)])
    /\ queue' = Tail(queue)
    /\ UNCHANGED <<ftypes, name_patterns, cmds, maxdepth, mindepth, tree, walk,
                   fpos, fpc, yielded, acted, skipped>>
    /\ UNCHANGED <<objVars, ctorVars, grepVars, logged, extVars>>

\* A PyFinder whose find(root_dir) is entered.
InitFind ==
    /\ quit_on_error = FALSE
    /\ no_message = FALSE
    /\ regex_patterns = <<>>
    /\ fixed_string_patterns = <<>>
    /\ args = [regex_patterns |-> <<>>, fpaths_with_patterns |-> <<>>,
               fixed_string_patterns |-> <<>>, fpaths_with_fixed_strings |-> <<>>]
    /\ pc = "idle"
    /\ idx = 1
    /\ logged = 0
    /\ GrepIdle
    /\ ExtIdle("none")
    /\ ftypes \in TypeFilters
    /\ name_patterns \in NameFilters
    /\ cmds \in Templates
    /\ maxdepth \in -1..MaxDepthArg
    /\ mindepth \in -1..MaxDepthArg
    /\ tree \in Trees
    /\ walk = os_walk(tree, <<>>)
    /\ fpos = 0
    /\ fpc = "walking"
    /\ yielded = <<>>
    /\ acted = <<>>
    /\ skipped = {}
    /\ queue = <<>>
    /\ ran = <<>>

NextFind ==
    \/ FindDir
    \/ FindFile
    \/ ExecRun
    \/ FindEnd

SpecFind == InitFind /\ [][NextFind]_vars

----------------------------------------------------------------------------
(* FileTypeE.from_path and PyFinder._filter_on_name, each called on a path *)

\* from_path(p), for a path p whose predicates answer `probe`.
FromPath ==
    /\ kind = "none"
    /\ kind' = from_path(probe)
    /\ UNCHANGED <<probe, entry_name, accepted>>
    /\ UNCHANGED <<objVars, ctorVars, grepVars, findVars, logged>>
    /\ UNCHANGED <<codecVars, expandVars, mainVars>>

\* Every combination of answers of the eight predicates.
InitKind ==
    /\ CtorIdle
    /\ GrepIdle
    /\ FindIdle
    /\ ExtIdle("from_path")
    /\ probe \in [DOMAIN NoPreds -> BOOLEAN]
    /\ kind = "none"

SpecKind == InitKind /\ [][FromPath]_vars

\* The -name patterns and the base names of the model.
NamePatterns ==
    { <<"b", "c">>, <<"a", "b">>, <<"^", "a", "b", "c", "$">>, <<"a", ".", "c">> }
EntryNames ==
    { <<"a", "b", "c">>, <<"a", "b", "c", "d">>, <<"x", "a", "b", "c">>,
      <<"a", "b">>, <<"b", "c">> }
MaxNamePatterns == 2

\* _filter_on_name(p), for a path p whose name is `entry_name`.
FilterOnName ==
    /\ accepted = "none"
    /\ accepted' = IF _filter_on_name(entry_name) THEN "True" ELSE "False"
    /\ UNCHANGED <<probe, kind, entry_name>>
    /\ UNCHANGED <<objVars, ctorVars, grepVars, findVars, logged>>
    /\ UNCHANGED <<codecVars, expandVars, mainVars>>

\* A PyFinder with some name filter (or none), and a path name.
InitName ==
    /\ CtorIdle
    /\ GrepIdle
    /\ ExtIdle("_filter_on_name")
    /\ ftypes = [given |-> FALSE, set |-> {}]
    /\ name_patterns \in
          {[given |-> FALSE, set |-> {}]}
          \cup {[given |-> TRUE, set |-> S] :
                   S \in {T \in SUBSET NamePatterns : Cardinality(T) <= MaxNamePatterns}}
    /\ cmds = [given |-> FALSE, tokens |-> <<>>]
    /\ maxdepth = -1
    /\ mindepth = -1
    /\ tree = [files |-> <<>>, dirs |-> <<>>]
    /\ walk = <<>>
    /\ fpos = 0
    /\ fpc = "idle"
    /\ yielded = <<>>
    /\ acted = <<>>
    /\ skipped = {}
    /\ queue = <<>>
    /\ ran = <<>>
    /\ entry_name \in EntryNames
    /\ accepted = "none"

SpecName == InitName /\ [][FilterOnName]_vars

----------------------------------------------------------------------------
(* PyGrep._generate_files (pygrep.py 101-136) *)

\* The inputs of the model.  cls is the class of the object: a Path (with
\* what exists() and the pathlib predicates answer, and the tree below a
\* directory), an instance of typing.TextIO, or sys.stdin, which is an
\* io.TextIOWrapper: the io classes do not derive from typing.TextIO, so
\* isinstance(sys.stdin, TextIO) is False.
Inputs ==
    { [cls |-> "Path", exists |-> TRUE, stat |-> RegularFile, tree |-> TreeFlat],
      [cls |-> "Path", exists |-> TRUE, stat |-> Directory, tree |-> TreeDeep],
      [cls |-> "Path", exists |-> FALSE, stat |-> NoPreds, tree |-> TreeFlat],
      [cls |-> "Path", exists |-> TRUE, stat |-> LinkToFile, tree |-> TreeFlat],
      [cls |-> "TextIO", exists |-> TRUE, stat |-> NoPreds, tree |-> TreeFlat],
      [cls |-> "TextIOWrapper", exists |-> TRUE, stat |-> NoPreds, tree |-> TreeFlat] }

MaxInputs == 3

\* `for _dir_str, _, _fnames in os.walk(_fpath): for _fname in _fnames:
\* yield _dir / _fname`, for input number i: the items in the order yielded.
RECURSIVE WalkFiles(_, _)
WalkFiles(w, i) ==
    IF w = <<>> THEN <<>>
    ELSE [k \in 1..Len(Head(w).fnames) |->
             [src |-> i, rel |-> Append(Head(w).dir, Head(w).fnames[k].name)]]
         \o WalkFiles(Tail(w), i)

\* The three error branches: log unless no_message, raise if quit_on_error,
\* otherwise go on with the next input.
GenFailure ==
    /\ logged' = IF no_message THEN logged ELSE logged + 1
    /\ gpc' = IF quit_on_error THEN "raised" ELSE gpc
    /\ UNCHANGED <<generated, gwalk>>

\* One iteration of `for _fpath in files`, up to its first yield.
GenNext ==
    /\ gpc = "running" /\ gwalk = <<>> /\ gi <= Len(files)
    /\ LET x == files[gi]
           itself == [src |-> gi, rel |-> <<>>]
       IN IF x.cls = "Path"
          THEN IF ~x.exists THEN GenFailure
               ELSE IF from_path(x.stat) = "ValueError"
               THEN /\ gpc' = "raised"
                    /\ logged' = logged + 1
                    /\ UNCHANGED <<generated, gwalk>>
               ELSE IF from_path(x.stat) = "f"
               THEN /\ generated' = Append(generated, itself)
                    /\ UNCHANGED <<gwalk, gpc, logged>>
               ELSE IF from_path(x.stat) = "d"
               THEN /\ gwalk' = WalkFiles(os_walk(x.tree, <<>>), gi)
                    /\ UNCHANGED <<generated, gpc, logged>>
               ELSE GenFailure
          ELSE IF x.cls = "TextIO"
          THEN /\ generated' = Append(generated, itself)
               /\ UNCHANGED <<gwalk, gpc, logged>>
          ELSE GenFailure
    /\ gi' = gi + 1
    /\ UNCHANGED <<files, quit_on_error, no_message, regex_patterns,
                   fixed_string_patterns>>
    /\ UNCHANGED <<ctorVars, grepVars, findVars, codecVars, fnVars, mainVars>>

\* The next yield of the walk of a directory input.
GenWalk ==
    /\ gpc = "running" /\ gwalk # <<>>
    /\ generated' = Append(generated, Head(gwalk))
    /\ gwalk' = Tail(gwalk)
    /\ UNCHANGED <<files, gi, gpc, logged, objVars>>
    /\ UNCHANGED <<ctorVars, grepVars, findVars, codecVars, fnVars, mainVars>>

\* The inputs are exhausted: the generator ends.
GenEnd ==
    /\ gpc = "running" /\ gwalk = <<>> /\ gi > Len(files)
    /\ gpc' = "done"
    /\ UNCHANGED <<files, gi, gwalk, generated, logged, objVars>>
    /\ UNCHANGED <<ctorVars, grepVars, findVars, codecVars, fnVars, mainVars>>

\* A constructed PyGrep whose _generate_files(files) is iterated.
InitExpand ==
    /\ quit_on_error \in BOOLEAN
    /\ no_message \in BOOLEAN
    /\ regex_patterns = <<>>
    /\ fixed_string_patterns = <<>>
    /\ args = [regex_patterns |-> <<>>, fpaths_with_patterns |-> <<>>,
               fixed_string_patterns |-> <<>>, fpaths_with_fixed_strings |-> <<>>]
    /\ pc = "built"
    /\ idx = 1
    /\ logged = 0
    /\ GrepIdle
    /\ FindIdle
    /\ ExtIdle("_generate_files")
    /\ files \in SeqsUpTo(Inputs, MaxInputs)
    /\ gi = 1
    /\ gwalk = <<>>
    /\ generated = <<>>
    /\ gpc = "running"

NextExpand ==
    \/ GenNext
    \/ GenWalk
    \/ GenEnd

SpecExpand == InitExpand /\ [][NextExpand]_vars

----------------------------------------------------------------------------
(* pyfind.py run as a script (pyfind.py 141-209) *)

\* FileTypeE.all_chars(): the values of the enumeration (FileTypeE.py 12-23).
all_chars == {"b", "c", "d", "f", "l", "m", "o", "s"}

\* FileTypeE.from_str (FileTypeE.py 30-41): None for None, else the set of
\* the kinds of the characters; raises ValueError at a character that is
\* not a kind code.
from_str(t) ==
    IF ~t.given THEN [raises |-> FALSE, given |-> FALSE, set |-> {}]
    ELSE IF \E k \in 1..Len(t.s) : t.s[k] \notin all_chars
    THEN [raises |-> TRUE, given |-> FALSE, set |-> {}]
    ELSE [raises |-> FALSE, given |-> TRUE, set |-> Range(t.s)]

MaxRoots == 2

\* The command lines of the model.  parse_args is handed sys.argv whole
\* (pyfind.py 177, 195), so the path of the script is the first of the
\* roots: a regular file, of which os.walk yields nothing.  -exec with
\* tokens = <<>> is -exec as the last word of the command line.
CommandLines ==
    { [type |-> t, name |-> n, exec |-> e, maxdepth |-> mx, mindepth |-> mn,
       roots |-> << [isdir |-> FALSE, tree |-> [files |-> <<>>, dirs |-> <<>>]] >> \o r] :
        t \in { [given |-> FALSE, s |-> <<>>], [given |-> TRUE, s |-> <<"f">>],
                [given |-> TRUE, s |-> <<"d", "l">>], [given |-> TRUE, s |-> <<"f", "z">>] },
        n \in { [given |-> FALSE, list |-> <<>>], [given |-> TRUE, list |-> << <<"a">> >>],
                [given |-> TRUE, list |-> << <<"(">> >>],
                [given |-> TRUE, list |-> << <<"s", ".">>, <<"a", "(">> >>] },
        e \in Templates \cup { Template(<<>>) },
        mx \in {-1, MaxDepthArg}, mn \in {-1, 0},
        r \in SeqsUpTo({ [isdir |-> TRUE, tree |-> tr] : tr \in Trees }, MaxRoots) \ {<<>>} }

\* find(_root_dir) is entered for the root at i.
EnterFind(i) ==
    /\ root_i' = i
    /\ tree' = argv.roots[i].tree
    /\ walk' = IF argv.roots[i].isdir THEN os_walk(argv.roots[i].tree, <<>>) ELSE <<>>
    /\ fpos' = 0
    /\ fpc' = "walking"

\* The script ends with exception e (none: "none") and exit status c.
Exit(e, c) ==
    /\ exception' = e
    /\ exit_code' = c
    /\ mpc' = "exited"

\* The -exec words are cut off and the rest is parsed (pyfind.py 177-195).
\* The ValueError for -exec without a command is raised before the try
\* statement is entered: the interpreter prints the traceback and ends with
\* status 1.
MainArgs ==
    /\ mpc = "start"
    /\ IF argv.exec.given /\ argv.exec.tokens = <<>>
       THEN /\ logged' = logged + 1
            /\ Exit("ValueError", 1)
       ELSE /\ mpc' = "parsed"
            /\ UNCHANGED <<logged, exception, exit_code>>
    /\ UNCHANGED <<argv, root_i, findVars, objVars>>
    /\ UNCHANGED <<ctorVars, grepVars, codecVars, fnVars, expandVars>>

\* FileTypeE.from_str and PyFinder(...) inside the try statement (pyfind.py
\* 197-201, 61-83): a ValueError of either is caught and mapped to status 2;
\* otherwise find is entered for the first root.
MainBuild ==
    /\ mpc = "parsed"
    /\ IF \/ from_str(argv.type).raises
          \/ argv.name.given /\ \E k \in 1..Len(argv.name.list) : CompileFails(argv.name.list[k])
       THEN /\ logged' = logged + 1
            /\ Exit("ValueError", 2)
            /\ UNCHANGED <<root_i, findVars>>
       ELSE /\ ftypes' = [given |-> from_str(argv.type).given, set |-> from_str(argv.type).set]
            /\ name_patterns' = [given |-> argv.name.given, set |-> Range(argv.name.list)]
            /\ cmds' = argv.exec
            /\ maxdepth' = argv.maxdepth
            /\ mindepth' = argv.mindepth
            /\ EnterFind(1)
            /\ mpc' = "finding"
            /\ UNCHANGED <<logged, exception, exit_code, yielded, acted, skipped, queue, ran>>
    /\ UNCHANGED <<argv, objVars>>
    /\ UNCHANGED <<ctorVars, grepVars, codecVars, fnVars, expandVars>>

\* find(_root_dir) has ended: the next root, or sys.exit(0) after the last
\* (pyfind.py 202-204, 209); a ValueError out of find is caught (207-208).
MainNextRoot ==
    /\ mpc = "finding" /\ fpc \in {"done", "raised"}
    /\ IF fpc = "raised"
       THEN Exit("ValueError", 2) /\ UNCHANGED <<root_i, tree, walk, fpos, fpc>>
       ELSE IF root_i < Len(argv.roots)
       THEN EnterFind(root_i + 1) /\ UNCHANGED <<mpc, exception, exit_code>>
       ELSE Exit("none", 0) /\ UNCHANGED <<root_i, tree, walk, fpos, fpc>>
    /\ UNCHANGED <<argv, logged, objVars, ftypes, name_patterns, cmds, maxdepth,
                   mindepth, yielded, acted, skipped, queue, ran>>
    /\ UNCHANGED <<ctorVars, grepVars, codecVars, fnVars, expandVars>>

\* KeyboardInterrupt inside the try statement (pyfind.py 205-206).
MainInterrupt ==
    /\ mpc = "finding" /\ fpc = "walking"
    /\ fpc' = "interrupted"
    /\ Exit("KeyboardInterrupt", 1)
    /\ UNCHANGED <<argv, root_i, logged, objVars, ftypes, name_patterns, cmds,
                   maxdepth, mindepth, tree, walk, fpos, yielded, acted, skipped,
                   queue, ran>>
    /\ UNCHANGED <<ctorVars, grepVars, codecVars, fnVars, expandVars>>

\* python pyfind.py <command line>
InitMain ==
    /\ CtorIdle
    /\ GrepIdle
    /\ FindIdle
    /\ ExtIdle("__main__")
    /\ argv \in CommandLines
    /\ mpc = "start"
    /\ root_i = 1
    /\ exception = "none"
    /\ exit_code = -1

NextMain ==
    \/ MainArgs
    \/ MainBuild
    \/ FindDir
    \/ FindFile
    \/ ExecRun
    \/ FindEnd
    \/ MainNextRoot
    \/ MainInterrupt

SpecMain == InitMain /\ [][NextMain]_vars

----------------------------------------------------------------------------
(* FileTypeCodec (FileReader.py) *)

CODEC_BINARY == <<"b", "i", "n", "a", "r", "y">>
MAGIC_RESULT_SEPARATOR == ";"
Charset == <<"c", "h", "a", "r", "s", "e", "t", "=">>

\* s.strip(): leading and trailing blanks removed.
RECURSIVE LStrip(_)
LStrip(s) == IF Len(s) > 0 /\ Head(s) = " " THEN LStrip(Tail(s)) ELSE s
RECURSIVE RStrip(_)
RStrip(s) ==
    IF Len(s) > 0 /\ s[Len(s)] = " "
    THEN RStrip(SubSeq(s, 1, Len(s) - 1))
    ELSE s
Strip(s) == LStrip(RStrip(s))

\* s.replace(old, ""): every occurrence of old removed, left to right.
RECURSIVE Remove(_, _)
Remove(s, old) ==
    IF Len(s) < Len(old) THEN s
    ELSE IF SubSeq(s, 1, Len(old)) = old
    THEN Remove(SubSeq(s, Len(old) + 1, Len(s)), old)
    ELSE <<Head(s)>> \o Remove(Tail(s), old)

\* What magic.Magic(mime=True, mime_encoding=True).from_file returns:
\* "<type>; charset=<codec>".
Mime(t, c) == t \o <<";", " ">> \o Charset \o c
SniffStrings ==
    { Mime(<<"t", "/", "p">>, <<"u", "8">>),
      Mime(<<"t", "/", "p">>, <<"a", "s">>),
      Mime(<<"a", "/", "o">>, CODEC_BINARY) }

\* The paths handed to the operations: two files, a symbolic link (to P, or
\* dangling), and a path that does not exist.
Paths == {"P", "Q", "L", "N"}
FileSystems ==
    { [p \in Paths |->
          CASE p = "P" -> [target |-> "P", exists |-> TRUE, sniff |-> sp]
            [] p = "Q" -> [target |-> "Q", exists |-> TRUE, sniff |-> sq]
            [] p = "L" -> [target |-> lt, exists |-> TRUE, sniff |-> <<>>]
            [] OTHER   -> [target |-> "N", exists |-> FALSE, sniff |-> <<>>]]
      : sp \in SniffStrings, sq \in SniffStrings, lt \in {"P", "N"} }

\* fpath.resolve(), fpath.exists() of a resolved path, cls.magic.from_file
resolve(fpath) == fs[fpath].target
exists(fpath) == fs[fpath].exists
from_file(fpath) == fs[fpath].sniff

MaxSniffs == 3

\* (mutant) the cache is never consulted.
CacheHit_never(fpath) == FALSE

\* `fpath in cls.history`
CacheHit(fpath) == fpath \in DOMAIN history

\* magic_from_file (FileReader.py 36-50): what it returns (pair, or "absent"
\* for None), the resolved path, and the raw sniff string on a cache miss.
magic_from_file(fpath) ==
    LET r == resolve(fpath)
    IN IF ~exists(r)
       THEN [out |-> "absent", at |-> r, pair |-> <<>>, raw |-> <<>>]
       ELSE IF CacheHit(r)
       THEN [out |-> "hit", at |-> r, pair |-> history[r], raw |-> <<>>]
       ELSE LET _type_codec == from_file(r)
                parts == Split(_type_codec, MAGIC_RESULT_SEPARATOR)
                _type == Strip(parts[1])
                _codec == Strip(Remove(parts[2], Charset))
            IN [out |-> "sniffed", at |-> r, pair |-> <<_type, _codec>>,
                raw |-> _type_codec]

\* (mutant) a counter is not cleared.
clear_keeps(d) == d

\* d.clear()
clear(d) == EmptyBag

\* (mutant) the counter is incremented by two.
Bump_twice(d, k) == d (+) SetToBag({k}) (+) SetToBag({k})

\* d[k] += 1 on a defaultdict(int)
Bump(d, k) == d (+) SetToBag({k})

\* A value returned: a pair, a flag or a string, the other fields void.
Returned(pair, flag, str) ==
    [absent |-> FALSE, pair |-> pair, flag |-> flag, str |-> str]

\* The return values of the queries (FileReader.py 52-87).
is_binary(fpath) ==
    LET m == magic_from_file(fpath)
    IN IF m.out = "absent" THEN Absent ELSE Returned(<<>>, m.pair[2] = CODEC_BINARY, <<>>)
is_text(fpath) ==
    LET b == is_binary(fpath)
    IN IF b.absent THEN Absent ELSE Returned(<<>>, ~b.flag, <<>>)
get_codec(fpath) ==
    LET m == magic_from_file(fpath)
    IN IF m.out = "absent" THEN Absent ELSE Returned(<<>>, FALSE, m.pair[2])
get_type(fpath) ==
    LET m == magic_from_file(fpath)
    IN IF m.out = "absent" THEN Absent ELSE Returned(<<>>, FALSE, m.pair[1])

Count(n) == IF n < 0 THEN n ELSE Min(n + 1, 2)

\* The state change of one call that runs magic_from_file(fpath) and returns
\* ret: the counters and the cache are written on a cache miss only.
Classify(op, fpath, ret) ==
    LET m == magic_from_file(fpath)
    IN /\ m.out = "sniffed" => sniffed < MaxSniffs
       /\ IF m.out = "sniffed"
          THEN /\ type_codec_stat' = Bump(type_codec_stat, m.raw)
               /\ type_stat' = Bump(type_stat, m.pair[1])
               /\ codec_stat' = Bump(codec_stat, m.pair[2])
               /\ history' = (m.at :> m.pair) @@ history
               /\ sniffs' = [sniffs EXCEPT ![m.at] = @ + 1]
               /\ sniffed' = sniffed + 1
          ELSE UNCHANGED <<type_codec_stat, type_stat, codec_stat, history,
                           sniffs, sniffed>>
       /\ last' = [op |-> op, path |-> fpath, at |-> m.at, out |-> m.out,
                   ret |-> ret]
       /\ ops_h' = Count(ops_h)
       /\ ops_s' = Count(ops_s)
       /\ UNCHANGED fs
       /\ UNCHANGED <<objVars, ctorVars, grepVars, findVars, logged>>
       /\ UNCHANGED <<fnVars, expandVars, mainVars>>

MagicFromFile ==
    \E p \in Paths :
        LET m == magic_from_file(p)
        IN Classify("magic_from_file", p,
                    IF m.out = "absent" THEN Absent
                    ELSE Returned(m.pair, FALSE, <<>>))
IsBinary == \E p \in Paths : Classify("is_binary", p, is_binary(p))
IsText == \E p \in Paths : Classify("is_text", p, is_text(p))
GetCodec == \E p \in Paths : Classify("get_codec", p, get_codec(p))
GetType == \E p \in Paths : Classify("get_type", p, get_type(p))

Reset(op) == [op |-> op, path |-> "", at |-> "", out |-> "none", ret |-> Absent]

\* reset_stats (FileReader.py 89-94)
ResetStats ==
    /\ type_codec_stat' = clear(type_codec_stat)
    /\ type_stat' = clear(type_stat)
    /\ codec_stat' = clear(codec_stat)
    /\ sniffed' = 0
    /\ ops_s' = 0
    /\ last' = Reset("reset_stats")
    /\ UNCHANGED <<fs, history, sniffs, ops_h>>
    /\ UNCHANGED <<objVars, ctorVars, grepVars, findVars, logged>>
    /\ UNCHANGED <<fnVars, expandVars, mainVars>>

\* reset_history (FileReader.py 96-99)
ResetHistory ==
    /\ history' = <<>>
    /\ sniffs' = [p \in Paths |-> 0]
    /\ ops_h' = 0
    /\ last' = Reset("reset_history")
    /\ UNCHANGED <<fs, type_codec_stat, type_stat, codec_stat, sniffed, ops_s>>
    /\ UNCHANGED <<objVars, ctorVars, grepVars, findVars, logged>>
    /\ UNCHANGED <<fnVars, expandVars, mainVars>>

\* The class as its body leaves it, over some file system.
InitCodec ==
    /\ CtorIdle
    /\ GrepIdle
    /\ FindIdle
    /\ ExtIdle("codec")
    /\ fs \in FileSystems
    /\ history = <<>>
    /\ type_codec_stat = EmptyBag
    /\ type_stat = EmptyBag
    /\ codec_stat = EmptyBag
    /\ last = NoCall
    /\ sniffs = [p \in Paths |-> 0]
    /\ sniffed = 0
    /\ ops_h = -1
    /\ ops_s = -1

NextCodec ==
    \/ MagicFromFile
    \/ IsBinary
    \/ IsText
    \/ GetCodec
    \/ GetType
    \/ ResetStats
    \/ ResetHistory

SpecCodec == InitCodec /\ [][NextCodec]_vars

----------------------------------------------------------------------------
(* Properties of PyGrep construction *)

WellFormed(p) == ~CompileFails(p)

RECURSIVE AllFileLines(_)
AllFileLines(fpaths) ==
    IF fpaths = <<>> THEN <<>>
    ELSE (IF Head(fpaths).openable THEN StrippedLines(Head(fpaths).lines) ELSE <<>>)
         \o AllFileLines(Tail(fpaths))

ConstructionFailures ==
    \/ \E k \in 1..Len(args.regex_patterns) : CompileFails(args.regex_patterns[k])
    \/ \E k \in 1..Len(args.fpaths_with_patterns) :
          \/ ~args.fpaths_with_patterns[k].openable
          \/ FileCompileFails(args.fpaths_with_patterns[k].lines)
    \/ \E k \in 1..Len(args.fpaths_with_fixed_strings) :
          ~args.fpaths_with_fixed_strings[k].openable

\* C10: without abort-on-error a failing item is the only thing skipped:
\* once built, the PatternSet holds every well-formed regex, literal or from a
\* line of an openable pattern file (also the lines after a malformed one),
\* and every fixed string; with abort-on-error, construction never completes
\* when some item fails.
C10_OnlyOffendingItemSkipped ==
    /\ (pc = "built" /\ ~quit_on_error) =>
          /\ regex_patterns =
                SelectSeq(args.regex_patterns, WellFormed)
                \o SelectSeq(AllFileLines(args.fpaths_with_patterns), WellFormed)
          /\ fixed_string_patterns =
                args.fixed_string_patterns
                \o AllFileLines(args.fpaths_with_fixed_strings)
    /\ (pc = "built" /\ quit_on_error) => ~ConstructionFailures

----------------------------------------------------------------------------
(* Properties of PyFinder *)

\* Every entry of the tree: its path, its stat predicates, its directory.
Entries ==
    LET w == os_walk(tree, <<>>)
    IN {[rel |-> w[k].dir, st |-> Directory, dir |-> w[k].dir] : k \in 1..Len(w)}
       \cup UNION { {[rel |-> Append(w[k].dir, w[k].fnames[j].name),
                      st  |-> w[k].fnames[j].stat,
                      dir |-> w[k].dir] : j \in 1..Len(w[k].fnames)}
                    : k \in 1..Len(w) }

Passes(e) == _filter_on_ftypes(e.st) = "True" /\ _filter_on_name(PathName(e.rel))
Reported == Range(yielded) \cup {acted[k].path : k \in 1..Len(acted)}

\* Depth of an entry, the root counted as 1.
EntryDepth(rel) == Len(rel) + 1
WithinBounds(n) ==
    /\ maxdepth < 0 \/ n <= maxdepth
    /\ mindepth < 0 \/ n >= mindepth
Below(rel, d) == Len(rel) > Len(d) /\ SubSeq(rel, 1, Len(d)) = d

Substitute(tokens, pstr) ==
    [k \in 1..Len(tokens) |->
        IF tokens[k] = EXEC_CMD_PLACEHOLDER THEN pstr ELSE tokens[k]]

\* The token list cut at the separators, the last piece included.
RECURSIVE SplitOnSeparators(_, _)
SplitOnSeparators(tokens, cmd) ==
    IF tokens = <<>> THEN (IF cmd = <<>> THEN <<>> ELSE <<cmd>>)
    ELSE IF Head(tokens) \in EXEC_CMD_SEPERATORS
    THEN <<cmd>> \o SplitOnSeparators(Tail(tokens), <<>>)
    ELSE SplitOnSeparators(Tail(tokens), Append(cmd, Head(tokens)))

\* C3: for every entry the action ran on, the commands run are the template
\* with `{}` replaced by the path, cut at the separators, each piece run in
\* order, the last piece too when no separator ends the template.
C3_ExecRunsEverySubcommand ==
    \A k \in 1..Len(acted) :
        acted[k].run =
            SplitOnSeparators(Substitute(cmds.tokens, PathStr(acted[k].path)), <<>>)

\* C4: with max depth set (and min depth not), the entries reported are
\* exactly the filter-passing entries whose own depth, the root counted as
\* 1 and a file of the root as 2, is at most max depth.
C4_DepthCountsEachEntry ==
    (maxdepth >= 0 /\ mindepth < 0) =>
        /\ \A rel \in Reported : EntryDepth(rel) <= maxdepth
        /\ fpc = "done" =>
              \A e \in Entries :
                  (Passes(e) /\ EntryDepth(e.rel) <= maxdepth) => e.rel \in Reported

\* C5: a directory is left by the depth test only for a bound that is set,
\* and with only min depth set every filter-passing entry whose depth (by
\* the walk's count and counted per entry alike) is at least min depth is
\* reported.
C5_UnsetBoundExcludesNothing ==
    /\ \A d \in skipped :
          \/ maxdepth >= 0 /\ WalkDepth(d) > maxdepth
          \/ mindepth >= 0 /\ WalkDepth(d) < mindepth
    /\ (fpc = "done" /\ maxdepth < 0 /\ mindepth >= 0) =>
          \A e \in Entries :
              (Passes(e) /\ WalkDepth(e.dir) >= mindepth
                         /\ EntryDepth(e.rel) >= mindepth) => e.rel \in Reported

\* C6: below a directory the depth test excluded, every filter-passing
\* entry whose depth (by the walk's count and counted per entry alike)
\* satisfies the bounds is reported once the walk is over.
C6_DepthFilterDoesNotPrune ==
    fpc = "done" =>
        \A d \in skipped : \A e \in Entries :
            (Below(e.rel, d) /\ Passes(e)
                /\ WithinBounds(WalkDepth(e.dir)) /\ WithinBounds(EntryDepth(e.rel)))
            => e.rel \in Reported

\* The entries of the tree in the order find comes to them: each directory
\* os.walk yields, then its file names.
RECURSIVE InWalkOrder(_)
InWalkOrder(w) ==
    IF w = <<>> THEN <<>>
    ELSE << [rel |-> Head(w).dir, st |-> Directory, dir |-> Head(w).dir] >>
         \o [j \in 1..Len(Head(w).fnames) |->
                [rel |-> Append(Head(w).dir, Head(w).fnames[j].name),
                 st  |-> Head(w).fnames[j].stat,
                 dir |-> Head(w).dir]]
         \o InWalkOrder(Tail(w))

\* The commands of the entries in a, each with the entry it belongs to, in
\* the order the entries were matched and the commands were collected.
RECURSIVE CommandsOf(_)
CommandsOf(a) ==
    IF a = <<>> THEN <<>>
    ELSE [k \in 1..Len(Head(a).run) |-> [path |-> Head(a).path, cmd |-> Head(a).run[k]]]
         \o CommandsOf(Tail(a))

----------------------------------------------------------------------------
(* Properties of the search session *)

SequentialMode == spc # "idle" /\ (sequential_processing \/ cpu_count = 0)
ParallelMode == spc # "idle" /\ ~(sequential_processing \/ cpu_count = 0)

Cands == 1..Len(candidates)
Searched(i) == result[i].out # "none"
Matched(i) == result[i].out = "matched"
PrintedSet == {printed[k] : k \in 1..Len(printed)}

\* The lines of a candidate that satisfy some pattern.
LineHits(c) ==
    {k \in 1..Len(c.lines) : ~Undecodable(c.lines[k]) /\ search_line(c.lines[k])}
FirstHit(c) ==
    IF LineHits(c) = {} THEN 0
    ELSE CHOOSE k \in LineHits(c) : \A l \in LineHits(c) : k <= l
Decodable(c, n) == \A k \in 1..Min(n, Len(c.lines)) : ~Undecodable(c.lines[k])

\* C1: in sequential mode the output is, at every moment, exactly the
\* candidates searched so far whose result is matched, in discovery order.
C1_SequentialPrintsMatchedInOrder ==
    SequentialMode =>
        printed = SelectSeq([i \in Cands |-> i], Matched)

\* C2: in parallel mode every printed candidate has a matched result that
\* the coordinator has received, no candidate is printed twice, and when the
\* session completes the printed candidates are exactly the matched ones.
C2_ParallelPrintsMatchedOnce ==
    ParallelMode =>
        /\ \A k \in 1..Len(printed) :
              Matched(printed[k]) /\ printed[k] \in received
        /\ \A k, l \in 1..Len(printed) : k # l => printed[k] # printed[l]
        /\ spc = "done" => PrintedSet = {i \in Cands : Matched(i)}

\* C2 witness: a completed parallel session that printed two matched
\* candidates against discovery order and left an unmatched one out.
C2_Witness ==
    /\ ParallelMode /\ spc = "done"
    /\ Len(printed) = 2 /\ printed[1] > printed[2]
    /\ \E i \in Cands : Searched(i) /\ ~Matched(i)

\* C7: a stream candidate is reported matched exactly when some line of it,
\* at any position, satisfies a pattern, and not matched only after all its
\* lines were read.
C7_StreamScansEveryLine ==
    \A i \in Cands :
        (candidates[i].kind = "stream" /\ Searched(i) /\ result[i].out # "raised") =>
            /\ Matched(i) <=> LineHits(candidates[i]) # {}
            /\ ~Matched(i) => result[i].read = Len(candidates[i].lines)

TextPath(i) == candidates[i].kind = "path" /\ candidates[i].is_text

C9_ErrorsStayAtCandidate ==
    /\ ~quit_on_error =>
          /\ spc # "aborted"
          /\ \A i \in Cands : result[i].out # "raised"
    /\ (quit_on_error /\ spc = "done") =>
          \A i \in Cands : result[i].out # "raised"

----------------------------------------------------------------------------
(* Properties of FileTypeCodec *)

Classifications == {"magic_from_file", "is_binary", "is_text", "get_codec", "get_type"}

\* The value `ret` of operation `op` is the one the pair gives.
Agrees(op, ret, pair) ==
    /\ ~ret.absent
    /\ CASE op = "magic_from_file" -> ret.pair = pair
         [] op = "get_type"        -> ret.str = pair[1]
         [] op = "get_codec"       -> ret.str = pair[2]
         [] op = "is_binary"       -> ret.flag = (pair[2] = CODEC_BINARY)
         [] op = "is_text"         -> ret.flag = (pair[2] # CODEC_BINARY)
         [] OTHER                  -> FALSE

Resets == {"reset_stats", "reset_history"}
Total(d) == BagCardinality(d)
CountersEmpty ==
    type_codec_stat = EmptyBag /\ type_stat = EmptyBag /\ codec_stat = EmptyBag
CacheEmpty == DOMAIN history = {}

\* C12: when both resets have been applied and nothing was classified since
\* either of them (in either order, any number of times), the cache and the
\* three counters are empty, and a further reset changes none of them; the
\* first classification after that, of a path that exists, sniffs once and
\* leaves one cache entry and a total of 1 in each counter.
C12_ResetThenOneReload ==
    /\ []( /\ (ops_h = 0 /\ ops_s = 0) => (CacheEmpty /\ CountersEmpty)
           /\ (ops_h = 1 /\ ops_s = 1 /\ exists(resolve(last.path))) =>
                 /\ last.op \in Classifications
                 /\ last.out = "sniffed"
                 /\ sniffs[last.at] = 1
                 /\ \A r \in DOMAIN sniffs : r # last.at => sniffs[r] = 0
                 /\ DOMAIN history = {last.at}
                 /\ Total(type_codec_stat) = 1
                 /\ Total(type_stat) = 1
                 /\ Total(codec_stat) = 1 )
    /\ [][ (ops_h = 0 /\ ops_s = 0 /\ last'.op \in Resets) =>
              /\ UNCHANGED <<history, type_codec_stat, type_stat, codec_stat>>
              /\ CacheEmpty' /\ CountersEmpty' ]_vars

\* C12 witness: after both resets, is_text through the symbolic link has
\* reloaded the record of its target: one sniff, one entry, counts of 1.
C12_Witness ==
    /\ ops_h = 1 /\ ops_s = 1
    /\ last.op = "is_text" /\ last.path = "L" /\ last.at = "P"
    /\ last.out = "sniffed"
    /\ DOMAIN history = {"P"} /\ Total(codec_stat) = 1

\* C18: the three counters have the same total, which is the number of
\* sniffs since the last reset_stats, and with no reset so far it is the
\* number of cache entries; a call answered from the cache or made for a path
\* that does not exist leaves the counters and the cache as they were, and a
\* call that sniffs adds exactly one to each counter's total.
C18_CountersCountSniffs ==
    /\ []( /\ Total(type_codec_stat) = sniffed
           /\ Total(type_stat) = sniffed
           /\ Total(codec_stat) = sniffed
           /\ (ops_h = -1 /\ ops_s = -1) => sniffed = Cardinality(DOMAIN history) )
    /\ [][ /\ (last'.op \in Classifications /\ last'.out \in {"hit", "absent"}) =>
                UNCHANGED <<history, type_codec_stat, type_stat, codec_stat>>
           /\ (last'.op \in Classifications /\ last'.out = "sniffed") =>
                /\ Total(type_codec_stat') = Total(type_codec_stat) + 1
                /\ Total(type_stat') = Total(type_stat) + 1
                /\ Total(codec_stat') = Total(codec_stat) + 1
           /\ last'.op \in Classifications \/ last'.op \in Resets
         ]_vars

\* C18 witness: two files of one type and two codecs were sniffed, so the
\* type counter holds one key counted twice, and a call for the path that
\* does not exist followed, with no reset so far.
C18_Witness ==
    /\ ops_h = -1 /\ ops_s = -1
    /\ sniffed = 2
    /\ Cardinality(BagToSet(type_stat)) = 1
    /\ Cardinality(BagToSet(codec_stat)) = 2
    /\ last.op = "get_type" /\ last.out = "absent" /\ last.path = "N"

----------------------------------------------------------------------------
(* Properties of from_path and _filter_on_name *)

\* The kinds in the priority order, and the predicate of each.
Priority == <<"c", "d", "l", "s", "m", "b", "o", "f">>
Holds(st, code) ==
    CASE code = "c" -> st.is_char_device
      [] code = "d" -> st.is_dir
      [] code = "l" -> st.is_symlink
      [] code = "s" -> st.is_socket
      [] code = "m" -> st.is_mount
      [] code = "b" -> st.is_block_device
      [] code = "o" -> st.is_fifo
      [] code = "f" -> st.is_file

\* C13: for every combination of answers of the eight predicates, from_path
\* returns the first kind of the priority order whose predicate holds, so
\* directory for a symbolic link that resolves to a directory, and raises
\* ValueError when no predicate holds.
C13_FromPathPriority ==
    kind # "none" =>
        LET hits == {k \in 1..Len(Priority) : Holds(probe, Priority[k])}
        IN /\ hits # {} =>
                 \E k \in hits : (\A j \in hits : k <= j) /\ kind = Priority[k]
           /\ hits = {} => kind = "ValueError"
           /\ (probe.is_symlink /\ probe.is_dir /\ ~probe.is_char_device) =>
                 kind = "d"

\* C13 witness: from_path has reported a symbolic link to a directory as a
\* directory.
C13_Witness ==
    /\ kind = "d"
    /\ probe.is_symlink /\ probe.is_dir
    /\ ~probe.is_char_device /\ ~probe.is_file

\* C17: with no name filter every name is accepted; with one, a name is
\* accepted exactly when some pattern matches it starting at position 0,
\* whether or not the match reaches the end of the name: "bc" rejects "abc",
\* "ab" accepts "abc", and "^abc$" accepts the name "abc" and no other.
C17_NameFilterPrefixAnchored ==
    accepted # "none" =>
        LET acc == accepted = "True"
            abc == <<"a", "b", "c">>
            only(pt) == name_patterns = [given |-> TRUE, set |-> {pt}]
        IN /\ ~name_patterns.given => acc
           /\ name_patterns.given =>
                 (acc <=> \E pt \in name_patterns.set :
                              MatchHere(pt, 1, entry_name, 1))
           /\ (only(<<"b", "c">>) /\ entry_name = abc) => ~acc
           /\ (only(<<"a", "b">>) /\ entry_name = abc) => acc
           /\ only(<<"^", "a", "b", "c", "$">>) => (acc <=> entry_name = abc)

\* C17 witness: the name "abc" was rejected by the filter whose only pattern
\* is "bc", which occurs in the name but not at its start.
C17_Witness ==
    /\ accepted = "False"
    /\ name_patterns = [given |-> TRUE, set |-> { <<"b", "c">> }]
    /\ entry_name = <<"a", "b", "c">>

----------------------------------------------------------------------------
(* Properties of input expansion *)

IsStream(x) == x.cls \in {"TextIO", "TextIOWrapper"}

\* What the input at i is to contribute: a regular file itself, a directory
\* the files of its recursive listing, an open stream itself, any other
\* path nothing.
Expansion(i) ==
    LET x == files[i]
    IN IF IsStream(x) THEN << [src |-> i, rel |-> <<>>] >>
       ELSE IF ~x.exists THEN <<>>
       ELSE IF from_path(x.stat) = "f" THEN << [src |-> i, rel |-> <<>>] >>
       ELSE IF from_path(x.stat) = "d" THEN WalkFiles(os_walk(x.tree, <<>>), i)
       ELSE <<>>

\* The input at i is to be reported: a path that does not exist, or one
\* whose kind is neither regular-file nor directory.
ToReport(i) ==
    /\ files[i].cls = "Path"
    /\ ~files[i].exists \/ from_path(files[i].stat) \notin {"f", "d"}

RECURSIVE ExpansionUpTo(_)
ExpansionUpTo(n) == IF n = 0 THEN <<>> ELSE ExpansionUpTo(n - 1) \o Expansion(n)

\* C14: the candidates yielded are, in input order, each regular file
\* itself, the files of each directory's recursive listing and each open
\* stream itself (standard input too); a path that does not exist or is of
\* another kind yields nothing and is reported: logged unless messages are
\* suppressed, and the generator raises only with abort-on-error set, and
\* only at such a path.
C14_InputExpansion ==
    /\ gwalk = <<>> =>
          generated = ExpansionUpTo(IF gpc = "raised" THEN gi - 2 ELSE gi - 1)
    /\ gpc = "raised" => (quit_on_error /\ ToReport(gi - 1))
    /\ gpc = "done" =>
          logged = IF no_message THEN 0
                   ELSE Cardinality({i \in 1..Len(files) : ToReport(i)})

----------------------------------------------------------------------------
(* Properties of pyfind.py run as a script *)

\* The command line has a validation error: a character of -type that is
\* not a kind code, a -name expression that does not compile, or -exec with
\* no word after it.
BadKindCode == argv.type.given /\ \E k \in 1..Len(argv.type.s) : argv.type.s[k] \notin all_chars
BadNameRegex == argv.name.given /\ \E k \in 1..Len(argv.name.list) : ~WellFormed(argv.name.list[k])
BareExec == argv.exec.given /\ argv.exec.tokens = <<>>

\* C15: a run whose command line has a validation error (bad kind code,
\* unparsable -name expression, -exec without a command) ends with exit
\* status 2, before anything is searched.
C15_ValidationErrorExits2 ==
    (mpc = "exited" /\ (BadKindCode \/ BadNameRegex \/ BareExec)) =>
        (exit_code = 2 /\ yielded = <<>> /\ acted = <<>>)

====
